---- MODULE Spec2Model ----
(***************************************************************************)
(* chain-assertions: extension methods on Option<T> and Result<T, E> that  *)
(* assert the shape of a value inside a method chain.  Every method takes  *)
(* `self` by value and either panics or gives `self` back.                 *)
(*                                                                         *)
(* The model follows one value through a chain of method calls made by a   *)
(* caller, in one build of the crate.  A build is the pair of compile-time *)
(* inputs the cfg attributes read: `debug_assertions` and the              *)
(* `passthrough` feature.  A predicate `cond` is a total boolean function  *)
(* of the payload; every invocation of it is logged with its argument, the *)
(* log standing for whatever side effect the closure has.                  *)
(***************************************************************************)
EXTENDS Integers, Sequences, FiniteSets, TLC

VARIABLES
    debug_assertions,   \* build profile: cfg(debug_assertions)
    passthrough,        \* cfg(feature = "passthrough")
    value,              \* the value the caller currently owns in the chain
    op,                 \* name of the method called last ("" before any call)
    input,              \* the value that call received as `self`
    cond,               \* the predicate that call received
    outcome,            \* what that call did: returned a value or panicked
    effects,            \* log of all predicate invocations of the chain so far
    n,                  \* number of calls made in the chain
    entered,            \* the value the chain started from
    trace               \* the calls of the chain in the order they ran

vars == <<debug_assertions, passthrough, value, op, input, cond, outcome, effects, n,
          entered, trace>>

(* ------------------------------ bounds --------------------------------- *)

MaxPayload == 1     \* payloads range over -MaxPayload..0 and the test values
MaxChain == 2       \* calls per chain

(* ------------------------------ values --------------------------------- *)

\* i32 payloads: the ones the crate's tests use, and a small range up to 0
Payloads == ((0 - MaxPayload) .. 0) \cup {19, 21}

None == [tag |-> "None"]
Some(v) == [tag |-> "Some", v |-> v]
Ok(v) == [tag |-> "Ok", v |-> v]
Err(e) == [tag |-> "Err", v |-> e]

Options == {None} \cup {Some(v) : v \in Payloads}
Results == {Ok(v) : v \in Payloads} \cup {Err(e) : e \in Payloads}

\* impl FnOnce(&T) -> bool over the payloads
Preds == [Payloads -> BOOLEAN]

\* a build of the crate
Builds == [debug_assertions : BOOLEAN, passthrough : BOOLEAN]

\* #[cfg(all(debug_assertions, not(feature = "passthrough")))]
cfg_debug_checks(build) == build.debug_assertions /\ ~build.passthrough

is_none(self) == self.tag = "None"

(* ------------------------- {:?} of an i32 ------------------------------ *)

Digit(d) ==
    CASE d = 0 -> "0" [] d = 1 -> "1" [] d = 2 -> "2" [] d = 3 -> "3"
      [] d = 4 -> "4" [] d = 5 -> "5" [] d = 6 -> "6" [] d = 7 -> "7"
      [] d = 8 -> "8" [] d = 9 -> "9"

RECURSIVE Decimal(_)
Decimal(k) == IF k < 10 THEN Digit(k) ELSE Decimal(k \div 10) \o Digit(k % 10)

\* format!("{:?}", v) for v: i32
fmt_Debug(v) == IF v < 0 THEN "-" \o Decimal(0 - v) ELSE Decimal(v)

(* ------------------------ outcomes of a call --------------------------- *)

Moved == [tag |-> "moved"]     \* nothing is handed back on a panic

\* `self` as the tail expression: the value goes back to the caller
Return(v, calls) == [kind |-> "return", value |-> v, msg |-> "", calls |-> calls]

\* panic!(msg): the call never returns
Panic(m, calls) == [kind |-> "panic", value |-> Moved, msg |-> m, calls |-> calls]

\* a statement that ran to its end; control reaches the tail expression
Completed(calls) == [kind |-> "completed", value |-> Moved, msg |-> "", calls |-> calls]

\* `{ stmt } self`: the tail expression is reached only if stmt did not panic
ThenSelf(stmt, self) == IF stmt.kind = "panic" THEN stmt ELSE Return(self, stmt.calls)

\* a block under #[cfg(all(debug_assertions, not(feature = "passthrough")))]:
\* compiled in when the cfg holds, absent otherwise
CfgBlock(build, stmt) == IF cfg_debug_checks(build) THEN stmt ELSE Completed(<<>>)

(* --------------------------- option.rs --------------------------------- *)

\* a plausible slip: the test inverted
assert_some_inverted(self, build) ==
    ThenSelf(IF ~is_none(self) THEN Panic("Expected Some(_), got None", <<>>)
                               ELSE Completed(<<>>), self)

assert_some(self, build) ==
    ThenSelf(IF is_none(self) THEN Panic("Expected Some(_), got None", <<>>)
                              ELSE Completed(<<>>), self)

debug_assert_some(self, build) ==
    ThenSelf(CfgBlock(build,
                 IF is_none(self) THEN Panic("Expected Some(_), got None", <<>>)
                                  ELSE Completed(<<>>)), self)

\* match self { Some(ref v) if cond(v) => {}, Some(ref v) => panic!, None => panic! }
\* The guard runs cond once, on the payload, and only in the Some arm.
match_some_and(self, c) ==
    IF self.tag = "Some"
    THEN IF c[self.v]
         THEN Completed(<<self.v>>)
         ELSE Panic("Condition not satisfied for Ok(" \o fmt_Debug(self.v) \o ")", <<self.v>>)
    ELSE Panic("Expected Some(_), got None", <<>>)

\* a plausible slip: the second arm asks the predicate again instead of
\* relying on the guard having failed
assert_some_and_twice(self, c, build) ==
    LET r == ThenSelf(match_some_and(self, c), self)
    IN  IF r.kind = "panic" /\ self.tag = "Some"
        THEN [r EXCEPT !.calls = <<self.v, self.v>>]
        ELSE r

assert_some_and(self, c, build) == ThenSelf(match_some_and(self, c), self)

\* a plausible slip: the predicate is evaluated outside the cfg block
debug_assert_some_and_eager(self, c, build) ==
    LET pre == IF self.tag = "Some" THEN <<self.v>> ELSE <<>>
        r == ThenSelf(CfgBlock(build, match_some_and(self, c)), self)
    IN  IF cfg_debug_checks(build) THEN r ELSE [r EXCEPT !.calls = pre]

debug_assert_some_and(self, c, build) ==
    ThenSelf(CfgBlock(build, match_some_and(self, c)), self)

\* a plausible slip: the message leaves the payload out
assert_none_no_payload(self, build) ==
    ThenSelf(IF self.tag = "Some"
             THEN Panic("Expected None, got Some(_)", <<>>)
             ELSE Completed(<<>>), self)

assert_none(self, build) ==
    ThenSelf(IF self.tag = "Some"
             THEN Panic("Expected None, got Some(" \o fmt_Debug(self.v) \o ")", <<>>)
             ELSE Completed(<<>>), self)

\* a plausible slip: the value is taken out and None handed back
debug_assert_none_take(self, build) ==
    LET r == ThenSelf(CfgBlock(build,
                 IF self.tag = "Some"
                 THEN Panic("Expected None, got Some(" \o fmt_Debug(self.v) \o ")", <<>>)
                 ELSE Completed(<<>>)), self)
    IN  IF r.kind = "return" THEN [r EXCEPT !.value = None] ELSE r

debug_assert_none(self, build) ==
    ThenSelf(CfgBlock(build,
                 IF self.tag = "Some"
                 THEN Panic("Expected None, got Some(" \o fmt_Debug(self.v) \o ")", <<>>)
                 ELSE Completed(<<>>)), self)

(* --------------------------- result.rs --------------------------------- *)

\* a plausible slip: the check follows the doc comment and is compiled out
\* under the passthrough feature
assert_ok_gated(self, build) ==
    ThenSelf(IF ~build.passthrough /\ self.tag = "Err"
             THEN Panic("Expected Ok(_), got Err(" \o fmt_Debug(self.v) \o ")", <<>>)
             ELSE Completed(<<>>), self)

assert_ok(self, build) ==
    ThenSelf(IF self.tag = "Err"
             THEN Panic("Expected Ok(_), got Err(" \o fmt_Debug(self.v) \o ")", <<>>)
             ELSE Completed(<<>>), self)

\* a plausible slip: the cfg attribute is missing and the check is compiled
\* into every build
debug_assert_ok_always(self, build) ==
    ThenSelf(IF self.tag = "Err"
             THEN Panic("Expected Ok(_), got Err(" \o fmt_Debug(self.v) \o ")", <<>>)
             ELSE Completed(<<>>), self)

debug_assert_ok(self, build) ==
    ThenSelf(CfgBlock(build,
                 IF self.tag = "Err"
                 THEN Panic("Expected Ok(_), got Err(" \o fmt_Debug(self.v) \o ")", <<>>)
                 ELSE Completed(<<>>)), self)

\* match self { Ok(ref x) if cond(x) => {}, Ok(ref x) => panic!, Err(ref x) => panic! }
match_ok_and(self, c) ==
    IF self.tag = "Ok"
    THEN IF c[self.v]
         THEN Completed(<<self.v>>)
         ELSE Panic("Condition not satisfied for Ok(" \o fmt_Debug(self.v) \o ")", <<self.v>>)
    ELSE Panic("Expected Ok(_), got Err(" \o fmt_Debug(self.v) \o ")", <<>>)

\* a plausible slip: the predicate's answer is dropped
assert_ok_and_unchecked(self, c, build) ==
    ThenSelf(IF self.tag = "Ok"
             THEN Completed(<<self.v>>)
             ELSE Panic("Expected Ok(_), got Err(" \o fmt_Debug(self.v) \o ")", <<>>), self)

\* a plausible slip: the arms test the predicate before the tag, so an Err
\* is reported as an unsatisfied condition
assert_ok_and_cond_first(self, c, build) ==
    ThenSelf(IF self.tag = "Ok" /\ c[self.v]
             THEN Completed(<<self.v>>)
             ELSE Panic("Condition not satisfied for " \o self.tag \o "("
                        \o fmt_Debug(self.v) \o ")",
                        IF self.tag = "Ok" THEN <<self.v>> ELSE <<>>), self)

assert_ok_and(self, c, build) == ThenSelf(match_ok_and(self, c), self)

\* a plausible slip: the cfg attribute forgets the passthrough feature
debug_assert_ok_and_profile_only(self, c, build) ==
    ThenSelf(IF build.debug_assertions THEN match_ok_and(self, c) ELSE Completed(<<>>), self)

debug_assert_ok_and(self, c, build) ==
    ThenSelf(CfgBlock(build, match_ok_and(self, c)), self)

\* a plausible slip: the rejected Ok is let through instead of panicking
assert_err_lenient(self, build) == ThenSelf(Completed(<<>>), self)

assert_err(self, build) ==
    ThenSelf(IF self.tag = "Ok"
             THEN Panic("Expected Err(_), got Ok(" \o fmt_Debug(self.v) \o ")", <<>>)
             ELSE Completed(<<>>), self)

\* a plausible slip: the body follows the doc bullet "It is Err" and
\* rejects the Err it is meant to accept
debug_assert_err_on_err(self, build) ==
    ThenSelf(CfgBlock(build,
                 IF self.tag = "Err"
                 THEN Panic("Expected Err(_), got Ok(" \o fmt_Debug(self.v) \o ")", <<>>)
                 ELSE Completed(<<>>)), self)

debug_assert_err(self, build) ==
    ThenSelf(CfgBlock(build,
                 IF self.tag = "Ok"
                 THEN Panic("Expected Err(_), got Ok(" \o fmt_Debug(self.v) \o ")", <<>>)
                 ELSE Completed(<<>>)), self)

\* match self { Err(ref x) if cond(x) => {}, Err(ref x) => panic!, Ok(ref x) => panic! }
match_err_and(self, c) ==
    IF self.tag = "Err"
    THEN IF c[self.v]
         THEN Completed(<<self.v>>)
         ELSE Panic("Condition not satisfied for Err(" \o fmt_Debug(self.v) \o ")", <<self.v>>)
    ELSE Panic("Expected Err(_), got Ok(" \o fmt_Debug(self.v) \o ")", <<>>)

\* a plausible slip: the predicate is run on whatever payload there is
\* before the tag is looked at
assert_err_and_pred_first(self, c, build) ==
    LET r == ThenSelf(match_err_and(self, c), self)
    IN  [r EXCEPT !.calls = <<self.v>>]

assert_err_and(self, c, build) == ThenSelf(match_err_and(self, c), self)

debug_assert_err_and(self, c, build) ==
    ThenSelf(CfgBlock(build, match_err_and(self, c)), self)

(* ------------------------------ dispatch ------------------------------- *)

OptionPlain == {"assert_some", "debug_assert_some", "assert_none", "debug_assert_none"}
OptionAnd == {"assert_some_and", "debug_assert_some_and"}
ResultPlain == {"assert_ok", "debug_assert_ok", "assert_err", "debug_assert_err"}
ResultAnd == {"assert_ok_and", "debug_assert_ok_and", "assert_err_and", "debug_assert_err_and"}

\* the method call `self.m(c)` compiled under `build`
Invoke(m, self, c, build) ==
    CASE m = "assert_some"           -> assert_some(self, build)
      [] m = "debug_assert_some"     -> debug_assert_some(self, build)
      [] m = "assert_some_and"       -> assert_some_and(self, c, build)
      [] m = "debug_assert_some_and" -> debug_assert_some_and(self, c, build)
      [] m = "assert_none"           -> assert_none(self, build)
      [] m = "debug_assert_none"     -> debug_assert_none(self, build)
      [] m = "assert_ok"             -> assert_ok(self, build)
      [] m = "debug_assert_ok"       -> debug_assert_ok(self, build)
      [] m = "assert_ok_and"         -> assert_ok_and(self, c, build)
      [] m = "debug_assert_ok_and"   -> debug_assert_ok_and(self, c, build)
      [] m = "assert_err"            -> assert_err(self, build)
      [] m = "debug_assert_err"      -> debug_assert_err(self, build)
      [] m = "assert_err_and"        -> assert_err_and(self, c, build)
      [] m = "debug_assert_err_and"  -> debug_assert_err_and(self, c, build)

(* ------------------------------ the chain ------------------------------ *)

\* the build this chain runs in
Build == [debug_assertions |-> debug_assertions, passthrough |-> passthrough]

NoCond == [p \in Payloads |-> FALSE]
NoCall == [kind |-> "none", value |-> Moved, msg |-> "", calls |-> <<>>]

Init ==
    /\ debug_assertions \in BOOLEAN
    /\ passthrough \in BOOLEAN
    /\ value \in Options \cup Results
    /\ op = ""
    /\ input = value
    /\ cond = NoCond
    /\ outcome = NoCall
    /\ effects = <<>>
    /\ n = 0
    /\ entered = value
    /\ trace = <<>>

\* The caller calls `value.m(c)`.  A call that returns hands the value back
\* to the caller, who may chain the next call on it; a panic ends the chain.
Call(m, c, r) ==
    /\ outcome.kind # "panic"
    /\ n < MaxChain
    /\ op' = m
    /\ input' = value
    /\ cond' = c
    /\ outcome' = r
    /\ effects' = effects \o r.calls
    /\ value' = IF r.kind = "return" THEN r.value ELSE Moved
    /\ n' = n + 1
    /\ trace' = Append(trace, [op |-> m, kind |-> r.kind])
    /\ UNCHANGED <<debug_assertions, passthrough, entered>>

IsOption == value.tag \in {"Some", "None"}
IsResult == value.tag \in {"Ok", "Err"}

CallAssertSome == IsOption /\ Call("assert_some", NoCond, assert_some(value, Build))
CallDebugAssertSome == IsOption /\ Call("debug_assert_some", NoCond, debug_assert_some(value, Build))
CallAssertSomeAnd ==
    IsOption /\ \E c \in Preds : Call("assert_some_and", c, assert_some_and(value, c, Build))
CallDebugAssertSomeAnd ==
    IsOption /\ \E c \in Preds :
        Call("debug_assert_some_and", c, debug_assert_some_and(value, c, Build))
CallAssertNone == IsOption /\ Call("assert_none", NoCond, assert_none(value, Build))
CallDebugAssertNone == IsOption /\ Call("debug_assert_none", NoCond, debug_assert_none(value, Build))

CallAssertOk == IsResult /\ Call("assert_ok", NoCond, assert_ok(value, Build))
CallDebugAssertOk == IsResult /\ Call("debug_assert_ok", NoCond, debug_assert_ok(value, Build))
CallAssertOkAnd ==
    IsResult /\ \E c \in Preds : Call("assert_ok_and", c, assert_ok_and(value, c, Build))
CallDebugAssertOkAnd ==
    IsResult /\ \E c \in Preds :
        Call("debug_assert_ok_and", c, debug_assert_ok_and(value, c, Build))
CallAssertErr == IsResult /\ Call("assert_err", NoCond, assert_err(value, Build))
CallDebugAssertErr == IsResult /\ Call("debug_assert_err", NoCond, debug_assert_err(value, Build))
CallAssertErrAnd ==
    IsResult /\ \E c \in Preds : Call("assert_err_and", c, assert_err_and(value, c, Build))
CallDebugAssertErrAnd ==
    IsResult /\ \E c \in Preds :
        Call("debug_assert_err_and", c, debug_assert_err_and(value, c, Build))

Next ==
    \/ CallAssertSome
    \/ CallDebugAssertSome
    \/ CallAssertSomeAnd
    \/ CallDebugAssertSomeAnd
    \/ CallAssertNone
    \/ CallDebugAssertNone
    \/ CallAssertOk
    \/ CallDebugAssertOk
    \/ CallAssertOkAnd
    \/ CallDebugAssertOkAnd
    \/ CallAssertErr
    \/ CallDebugAssertErr
    \/ CallAssertErrAnd
    \/ CallDebugAssertErrAnd

Spec == Init /\ [][Next]_vars

TypeOK ==
    /\ debug_assertions \in BOOLEAN
    /\ passthrough \in BOOLEAN
    /\ n \in 0..MaxChain
    /\ outcome.kind \in {"none", "return", "panic"}

(* ------------------------------ the claims ----------------------------- *)

AlwaysChecked == {"assert_some", "assert_some_and", "assert_none",
                  "assert_ok", "assert_ok_and", "assert_err", "assert_err_and"}
DebugGated == {"debug_assert_some", "debug_assert_some_and", "debug_assert_none",
               "debug_assert_ok", "debug_assert_ok_and", "debug_assert_err",
               "debug_assert_err_and"}
AndMethods == OptionAnd \cup ResultAnd

\* the always-checked method a debug-gated one is the twin of
Counterpart(m) ==
    CASE m = "debug_assert_some"     -> "assert_some"
      [] m = "debug_assert_some_and" -> "assert_some_and"
      [] m = "debug_assert_none"     -> "assert_none"
      [] m = "debug_assert_ok"       -> "assert_ok"
      [] m = "debug_assert_ok_and"   -> "assert_ok_and"
      [] m = "debug_assert_err"      -> "assert_err"
      [] m = "debug_assert_err_and"  -> "assert_err_and"

\* the tag a method asserts
ExpectedTag(m) ==
    CASE m \in {"assert_some", "debug_assert_some",
                "assert_some_and", "debug_assert_some_and"} -> "Some"
      [] m \in {"assert_none", "debug_assert_none"} -> "None"
      [] m \in {"assert_ok", "debug_assert_ok",
                "assert_ok_and", "debug_assert_ok_and"} -> "Ok"
      [] m \in {"assert_err", "debug_assert_err",
                "assert_err_and", "debug_assert_err_and"} -> "Err"

Returned == outcome.kind = "return"
\* the call panicked: nothing came back to the caller
Panicked == outcome.kind = "panic" /\ value = Moved
ReturnedInput == Returned /\ outcome.value = input /\ value = input
PanickedWith(m) == Panicked /\ outcome.msg = m

\* C1: an always-checked plain assertion whose expected tag is the input's
\* tag does not panic and returns the input unchanged.
C1_IdentityLaw ==
    /\ (op = "assert_some" /\ input.tag = "Some") => ReturnedInput
    /\ (op = "assert_none" /\ input.tag = "None") => ReturnedInput
    /\ (op = "assert_ok" /\ input.tag = "Ok") => ReturnedInput
    /\ (op = "assert_err" /\ input.tag = "Err") => ReturnedInput

C1_Witness ==
    /\ op = "assert_some" /\ input = Some(21)
    /\ outcome.kind = "return" /\ outcome.value = Some(21)

C4_NoPredOnMismatch ==
    (op \in AndMethods /\ input.tag # ExpectedTag(op)) =>
        /\ outcome.calls = <<>>
        /\ Len(effects) < n

C4_Witness ==
    /\ op = "assert_err_and" /\ input = Ok(21) /\ cond[21]
    /\ outcome.kind = "panic" /\ outcome.calls = <<>> /\ effects = <<>>

C6_DisabledNeverCallsPred ==
    (op \in {"debug_assert_some_and", "debug_assert_ok_and", "debug_assert_err_and"}
        /\ ~(debug_assertions /\ ~passthrough)) =>
        /\ Len(outcome.calls) = 0
        /\ Len(effects) < n

C6_Witness ==
    /\ op = "debug_assert_some_and" /\ input = Some(19) /\ ~cond[19]
    /\ ~debug_assertions
    /\ outcome.kind = "return" /\ outcome.calls = <<>>

CondMsg(tag, p) == "Condition not satisfied for " \o tag \o "(" \o fmt_Debug(p) \o ")"
CondMsgs(tag) == {CondMsg(tag, p) : p \in Payloads}

\* the Result *_and methods whose check is compiled in
CheckedResultAnd ==
    {"assert_ok_and", "assert_err_and"} \cup
    (IF debug_assertions /\ ~passthrough
     THEN {"debug_assert_ok_and", "debug_assert_err_and"} ELSE {})

CheckedOptionAnd ==
    {"assert_some_and"} \cup
    (IF debug_assertions /\ ~passthrough THEN {"debug_assert_some_and"} ELSE {})

\* C8: assert_some_and (and the enabled debug_assert_some_and) on Some(v)
\* with a false predicate panics with "Condition not satisfied for " followed
\* by the debug rendering of v; on None it panics with the expected-Some
\* message.
C8_SomeAndMessage ==
    op \in CheckedOptionAnd =>
        /\ (input.tag = "Some" /\ ~cond[input.v])
               => PanickedWith("Condition not satisfied for " \o fmt_Debug(input.v))
        /\ input.tag = "None" => PanickedWith("Expected Some(_), got None")

C10_ReturnsInput ==
    Returned => /\ outcome.value = input
                /\ value = input
                /\ value.tag = input.tag

C10_Witness ==
    /\ op = "debug_assert_none" /\ input = Some(0)
    /\ ~(debug_assertions /\ ~passthrough)
    /\ outcome.kind = "return" /\ value = Some(0)

\* C11: a predicate-qualified method, in any build, invokes the predicate at
\* most once per call, and any invocation is on the payload of the input.
C11_PredAtMostOnce ==
    op \in AndMethods =>
        /\ Len(outcome.calls) <= 1
        /\ \A i \in 1..Len(outcome.calls) :
               /\ input.tag = ExpectedTag(op)
               /\ outcome.calls[i] = input.v

C11_Witness ==
    /\ op = "assert_some_and" /\ input = Some(19) /\ ~cond[19]
    /\ outcome.kind = "panic" /\ outcome.calls = <<19>>

\* C12: as the doc comments of the Result traits say, assert_ok, assert_err,
\* assert_ok_and and assert_err_and panic only with the passthrough feature
\* disabled (the *_and forms only with debug_assertions enabled as well), and
\* otherwise return self as is.
C12_DocumentedGating ==
    op \in {"assert_ok", "assert_err", "assert_ok_and", "assert_err_and"} =>
        /\ Panicked => ~passthrough
        /\ (Panicked /\ op \in {"assert_ok_and", "assert_err_and"}) => debug_assertions
        /\ passthrough => ReturnedInput

CheckFails(m, v, c) ==
    /\ m \in AlwaysChecked \/ (debug_assertions /\ ~passthrough)
    /\ \/ v.tag # ExpectedTag(m)
       \/ m \in AndMethods /\ ~c[v.v]

\* C14: in a chain of assertions, in any build, the calls run in chain order
\* on the value that entered the chain; a call panics exactly when its check
\* fails, so the call that panics is the first one whose check fails; nothing
\* runs after a panic (no call is enabled, no predicate is evaluated); and a
\* chain in which nothing panicked holds the value that entered it.
C14_Chaining ==
    /\ Len(trace) = n
    /\ \A i \in 1..(n - 1) : trace[i].kind = "return"
    /\ Len(effects) <= Cardinality({i \in 1..n : trace[i].op \in AndMethods})
    /\ n > 0 =>
           /\ trace[n] = [op |-> op, kind |-> outcome.kind]
           /\ input = entered
           /\ Panicked <=> CheckFails(op, entered, cond)
           /\ Returned <=> ~CheckFails(op, entered, cond)
    /\ Panicked => ~ENABLED Next
    /\ ~Panicked => value = entered

C14_Witness ==
    /\ n = 2 /\ entered = Some(21)
    /\ trace[1] = [op |-> "assert_some_and", kind |-> "return"]
    /\ trace[2] = [op |-> "assert_none", kind |-> "panic"]
    /\ effects = <<21>>

====
